---- MODULE Spec2Model ----
(***************************************************************************)
(* Cross-venue dislocation pipeline: scripts/detect_events.py (as-of       *)
(* merger, spread metric engine, event extractor) followed by              *)
(* scripts/backtest.py (nearest-mid lookup, cost model, trade loop).       *)
(*                                                                         *)
(* Floating point values are modelled as exact rationals <<n, d>> with     *)
(* d > 0 in lowest terms.  The mids of the model, 19^2, 19*21 and 21^2,    *)
(* give the spreads 0, 1000 (twice) and 800000/401 bps, and the IEEE       *)
(* double results of the code's expressions on them are equal and ordered  *)
(* exactly as the rationals are.  NaN is <<0, 0>>, Python's None is <<>>.  *)
(*                                                                         *)
(* Spec is the pipeline of run_all.py; SpecBt is backtest.py on an events  *)
(* file that is not detect_events.py's; SpecDet is detect_events.py on a   *)
(* ticks table of three venues whose mids may be zero or negative;         *)
(* SpecCost is backtest.py over the values costs_bps can hold; SpecPipe is *)
(* the pipeline on SpecDet's tables; SpecEx is the pipeline on a longer    *)
(* stream of two venues, with a threshold of zero too; SpecStale is        *)
(* run_all.py or backtest.py where files of an earlier run lie.            *)
(***************************************************************************)
EXTENDS Integers, Sequences, FiniteSets, TLC

\* ------------------------------------------------------------------ bounds
MaxTicks == 4
MaxBtTicks == 2
MaxRows == 2

\* ------------------------------------------------------- program constants
LookbackMin == 180

\* --------------------------------------------------------------- rationals
None == <<>>
NaN == <<0, 0>>
\* a value float() cannot parse (a non-numeric string)
Text == <<1, 0>>

Abs(x) == IF x < 0 THEN -x ELSE x

RECURSIVE GCD(_, _)
GCD(a, b) == IF b = 0 THEN a ELSE GCD(b, a % b)

\* n / d as a float value: lowest terms, positive denominator
Rat(n, d) ==
    LET s == IF d < 0 THEN -1 ELSE 1
        g == GCD(Abs(n), Abs(d))
    IN  <<(s * n) \div g, (s * d) \div g>>

IsNum(x) == Len(x) = 2 /\ x[2] > 0
RatLt(a, b) == a[1] * b[2] < b[1] * a[2]
RatGeq(a, b) == ~RatLt(a, b)
RatGt(a, b) == RatLt(b, a)
RatAdd(a, b) ==
    IF IsNum(a) /\ IsNum(b) THEN Rat(a[1] * b[2] + b[1] * a[2], a[2] * b[2]) ELSE NaN
RatSub(a, b) ==
    IF IsNum(a) /\ IsNum(b) THEN Rat(a[1] * b[2] - b[1] * a[2], a[2] * b[2]) ELSE NaN

\* ------------------------------------------------------------------ inputs
Venues == {"A", "B"}
Mids == {361, 399, 441}
Gaps == {100}
Thresholds == {<<1000, 1>>, <<1500, 1>>}
Persistences == {0, 200}

Tick(t, v, m) == [ts |-> t, venue |-> v, mid |-> m]

\* the tick tables a query ORDER BY ts_ms ASC can return, first tick at ts 0
RECURSIVE TickTables(_, _)
TickTables(n, M) ==
    IF n = 0 THEN {<<>>}
    ELSE IF n = 1 THEN {<<Tick(0, v, m)>> : v \in Venues, m \in M}
    ELSE {Append(s, Tick(s[Len(s)].ts + g, x[1], x[2])) :
             s \in TickTables(n - 1, M), g \in Gaps, x \in Venues \X M}

AllTickTables == UNION {TickTables(n, Mids) : n \in 0..MaxTicks}

VARIABLES
    db,           \* the ticks table of the SQLite store, in ts_ms order
    threshold_bps, persistence_ms,
    cfg,          \* config.yaml: latency_ms and the values of costs_bps
    pc,
    ticks,        \* detect_events: the rows the lookback query returned
    i,            \* detect_events: rows of ticks consumed by the first loop
    last_mid,     \* detect_events: dict venue -> mid, in insertion order
    metric_rows,
    j,            \* detect_events: rows of metrics consumed by the second loop
    in_event, start, peak, peak_v,
    events,
    metrics_file, events_file, trades_file,
    bt_events,    \* backtest: the events frame read from events_file
    bt_ticks,     \* backtest: the ticks frame
    total_cost_bps, latency_ms,
    n_read,       \* backtest: rows of events consumed by the loop
    trades,
    src           \* history: for each trade, the index of the events row it is of

btvars == <<trades_file, bt_events, bt_ticks, total_cost_bps, latency_ms, n_read, trades, src>>

vars == <<db, threshold_bps, persistence_ms, cfg, pc, ticks, i, last_mid, metric_rows,
          j, in_event, start, peak, peak_v, events, metrics_file, events_file, btvars>>

\* a file of the processed directory: absent, or its columns and rows;
\* zero says that st_size is 0
Missing == [exists |-> FALSE, zero |-> TRUE, cols |-> {}, rows |-> <<>>]
File(c, r) == [exists |-> TRUE, zero |-> FALSE, cols |-> c, rows |-> r]

\* config.yaml: latency_ms and costs_bps; costs_kind says whether the key is a
\* mapping ("dict", costs_bps being the sequence of its values), is absent, or
\* holds a number instead of a mapping ("scalar")
Cfg(l, c) == [latency_ms |-> l, costs_kind |-> "dict", costs_bps |-> c]
NoCosts(l) == [latency_ms |-> l, costs_kind |-> "absent", costs_bps |-> <<>>]
ScalarCosts(l) == [latency_ms |-> l, costs_kind |-> "scalar", costs_bps |-> <<>>]
PipelineCfgs == {Cfg(0, <<<<2, 1>>, <<1, 1>>, <<3, 1>>>>)}

\* the locals of the two scripts before they run
FreshLocals ==
    /\ ticks = <<>>
    /\ i = 0
    /\ last_mid = <<>>
    /\ metric_rows = <<>>
    /\ j = 0
    /\ in_event = FALSE
    /\ start = None
    /\ peak = None
    /\ peak_v = None
    /\ events = <<>>
    /\ bt_events = Missing
    /\ bt_ticks = <<>>
    /\ total_cost_bps = None
    /\ latency_ms = 0
    /\ n_read = 0
    /\ trades = <<>>
    /\ src = <<>>

\* an empty processed directory as well
Fresh ==
    /\ metrics_file = Missing
    /\ trades_file = Missing
    /\ FreshLocals

\* detect_events.py started on the store with its arguments parsed (run_all.py
\* then runs backtest.py on its output)
Init ==
    /\ db \in AllTickTables
    /\ threshold_bps \in Thresholds
    /\ persistence_ms \in Persistences
    /\ cfg \in PipelineCfgs
    /\ pc = "d_load"
    /\ events_file = Missing
    /\ Fresh

\* ----------------------------------------------------- detect_events.main
\* pc names the statement a run is at; a run that ended by an exception is at
\* d_raise_empty (RuntimeError, line 40), d_raise_zerodiv (ZeroDivisionError,
\* line 63), b_raise_cost (float() in total_cost_bps_from_cfg, line 44) or
\* b_raise_cols (ValueError, line 134)
\* SELECT MAX(ts_ms): the last row of the ts-ordered table
MaxTs(t) == t[Len(t)].ts

LookbackMs == LookbackMin * 60 * 1000

\* SELECT ... WHERE ts_ms >= ? ORDER BY ts_ms ASC
SelectSince(t, start_ts) == SelectSeq(t, LAMBDA r : r.ts >= start_ts)

DetectLoad ==
    /\ pc = "d_load"
    /\ IF db = <<>>
       THEN /\ pc' = "d_raise_empty"
            /\ UNCHANGED ticks
       ELSE /\ ticks' = SelectSince(db, MaxTs(db) - LookbackMs)
            /\ pc' = "d_merge"
    /\ UNCHANGED <<db, threshold_bps, persistence_ms, cfg, i, last_mid, metric_rows, j,
                   in_event, start, peak, peak_v, events, metrics_file, events_file, btvars>>

\* last_mid[venue] = float(mid): an existing key keeps its place, a new one is last
HasKey(d, v) == \E k \in 1..Len(d) : d[k][1] = v
\* the dict is made anew on every tick
DictSet_Only(d, v, m) == <<<<v, m>>>>

\* the first mid of a venue is kept (setdefault)
DictSet_KeepFirst(d, v, m) == IF HasKey(d, v) THEN d ELSE Append(d, <<v, m>>)

DictSet(d, v, m) ==
    IF HasKey(d, v)
    THEN [k \in 1..Len(d) |-> IF d[k][1] = v THEN <<v, m>> ELSE d[k]]
    ELSE Append(d, <<v, m>>)

\* the last minimal item
ArgMin_Last(items) ==
    LET k == CHOOSE k \in 1..Len(items) :
                 /\ \A l \in 1..Len(items) : items[k][2] <= items[l][2]
                 /\ \A l \in (k + 1)..Len(items) : items[l][2] > items[k][2]
    IN  items[k]

\* min(items, key=...) and max(items, key=...): the first extremal item
ArgMin(items) ==
    LET k == CHOOSE k \in 1..Len(items) :
                 /\ \A l \in 1..Len(items) : items[k][2] <= items[l][2]
                 /\ \A l \in 1..(k - 1) : items[l][2] > items[k][2]
    IN  items[k]
ArgMax(items) ==
    LET k == CHOOSE k \in 1..Len(items) :
                 /\ \A l \in 1..Len(items) : items[k][2] >= items[l][2]
                 /\ \A l \in 1..(k - 1) : items[l][2] < items[k][2]
    IN  items[k]

\* (max_mid - min_mid) / ((min_mid + max_mid) / 2.0) * 1e4
SpreadBps(min_mid, max_mid) == Rat((max_mid - min_mid) * 20000, min_mid + max_mid)

MetricRow(t, d) ==
    LET lo == ArgMin(d)
        hi == ArgMax(d)
    IN  [ts_ms |-> t, min_venue |-> lo[1], max_venue |-> hi[1],
         min_mid |-> lo[2], max_mid |-> hi[2], spread_bps |-> SpreadBps(lo[2], hi[2])]

\* a sample from the first venue on
EnoughVenues_One(d) == Len(d) >= 1

\* len(last_mid) >= 2 (line 58)
EnoughVenues(d) == Len(d) >= 2

\* one iteration of the loop over ticks (lines 56-64)
MergeTick ==
    /\ pc = "d_merge"
    /\ i < Len(ticks)
    /\ LET r == ticks[i + 1]
           d == DictSet(last_mid, r.venue, r.mid)
       IN  /\ last_mid' = d
           /\ i' = i + 1
           /\ IF EnoughVenues(d)
              THEN IF ArgMin(d)[2] + ArgMax(d)[2] = 0
                   THEN /\ pc' = "d_raise_zerodiv"
                        /\ UNCHANGED metric_rows
                   ELSE /\ metric_rows' = Append(metric_rows, MetricRow(r.ts, d))
                        /\ pc' = pc
              ELSE UNCHANGED <<metric_rows, pc>>
    /\ UNCHANGED <<db, threshold_bps, persistence_ms, cfg, ticks, j,
                   in_event, start, peak, peak_v, events, metrics_file, events_file, btvars>>

\* the metrics file is written as soon as the samples are there
MetricsBuilt_WriteEarly ==
    /\ pc = "d_merge"
    /\ i = Len(ticks)
    /\ pc' = IF metric_rows = <<>> THEN "d_nometrics" ELSE "d_extract"
    /\ metrics_file' = IF metric_rows = <<>> THEN metrics_file
                       ELSE File({"ts_ms", "min_venue", "max_venue", "min_mid", "max_mid",
                                  "spread_bps"}, metric_rows)
    /\ UNCHANGED <<db, threshold_bps, persistence_ms, cfg, ticks, i, last_mid, metric_rows, j,
                   in_event, start, peak, peak_v, events, events_file, btvars>>

\* the loop over ticks is exhausted; metrics.empty ends the run (lines 66-79)
MetricsBuilt ==
    /\ pc = "d_merge"
    /\ i = Len(ticks)
    /\ pc' = IF metric_rows = <<>> THEN "d_nometrics" ELSE "d_extract"
    /\ UNCHANGED <<db, threshold_bps, persistence_ms, cfg, ticks, i, last_mid, metric_rows, j,
                   in_event, start, peak, peak_v, events, metrics_file, events_file, btvars>>

Event(s, e, p, pv) ==
    [start_ms |-> s, end_ms |-> e, duration_ms |-> e - s, peak_bps |-> p,
     min_venue |-> pv[1], max_venue |-> pv[2]]

\* the duration filter left out
Persisted_NoFilter(dur) == dur >= 0

\* the duration filter (lines 98-110 and 115-128)
Persisted(dur) == dur >= persistence_ms

CloseEvent(evs, s, e, p, pv) ==
    IF Persisted(e - s) THEN Append(evs, Event(s, e, p, pv)) ELSE evs

\* every sample is taken to be at or above the threshold
AtOrAbove_Always(bps) == TRUE

\* entry on strictly greater only
AtOrAbove_Strict(bps) == RatGt(bps, threshold_bps)

\* entry test (line 85)
AtOrAbove(bps) == RatGeq(bps, threshold_bps)

\* the last maximal sample wins
NewPeak_OrEqual(bps, p) == RatGeq(bps, p)

\* peak update test (line 92)
NewPeak(bps, p) == RatGt(bps, p)

\* a greater peak of an earlier interval is kept
EntryPeak_Stale(p, bps) == IF p # None /\ RatGt(p, bps) THEN p ELSE bps

\* the peak starts at the threshold
EntryPeak_Threshold(p, bps) == threshold_bps

\* peak = bps on entry (line 89), whatever peak held
EntryPeak(p, bps) == bps

\* one iteration of the loop over metrics (lines 81-111)
ExtractSample ==
    /\ pc = "d_extract"
    /\ j < Len(metric_rows)
    /\ j' = j + 1
    /\ LET row == metric_rows[j + 1]
           ts == row.ts_ms
           bps == row.spread_bps
       IN  IF AtOrAbove(bps)
           THEN IF ~in_event
                THEN /\ in_event' = TRUE
                     /\ start' = ts
                     /\ peak' = EntryPeak(peak, bps)
                     /\ peak_v' = <<row.min_venue, row.max_venue>>
                     /\ UNCHANGED events
                ELSE /\ IF NewPeak(bps, peak)
                        THEN /\ peak' = bps
                             /\ peak_v' = <<row.min_venue, row.max_venue>>
                        ELSE UNCHANGED <<peak, peak_v>>
                     /\ UNCHANGED <<in_event, start, events>>
           ELSE IF in_event
                THEN /\ events' = CloseEvent(events, start, ts, peak, peak_v)
                     /\ in_event' = FALSE
                     /\ UNCHANGED <<start, peak, peak_v>>
                ELSE UNCHANGED <<in_event, start, peak, peak_v, events>>
    /\ UNCHANGED <<db, threshold_bps, persistence_ms, cfg, pc, ticks, i, last_mid, metric_rows,
                   metrics_file, events_file, btvars>>

\* the trailing event is lost
Flush_NoClose ==
    /\ pc = "d_extract"
    /\ j = Len(metric_rows)
    /\ pc' = "d_write"
    /\ UNCHANGED <<db, threshold_bps, persistence_ms, cfg, ticks, i, last_mid, metric_rows, j,
                   in_event, start, peak, peak_v, events, metrics_file, events_file, btvars>>

\* close trailing event (lines 113-128)
Flush ==
    /\ pc = "d_extract"
    /\ j = Len(metric_rows)
    /\ events' = IF in_event
                 THEN CloseEvent(events, start, metric_rows[Len(metric_rows)].ts_ms,
                                 peak, peak_v)
                 ELSE events
    /\ pc' = "d_write"
    /\ UNCHANGED <<db, threshold_bps, persistence_ms, cfg, ticks, i, last_mid, metric_rows, j,
                   in_event, start, peak, peak_v, metrics_file, events_file, btvars>>


\* the columns of pd.DataFrame(events) and the row the backtest reads back
DetectCols ==
    {"start_ms", "end_ms", "duration_ms", "peak_bps", "min_venue", "max_venue", "n_points"}
MetricCols == {"ts_ms", "min_venue", "max_venue", "min_mid", "max_mid", "spread_bps"}

CsvRow(s, e, lv, sv, p, c) ==
    [start_ms |-> s, end_ms |-> e, min_venue |-> lv, max_venue |-> sv,
     peak_bps |-> p, spread_bps |-> c]

EventRow(ev) ==
    CsvRow(ev.start_ms, ev.end_ms, ev.min_venue, ev.max_venue, ev.peak_bps, None)

\* pd.DataFrame(events).to_csv: a frame of no events has no columns
EventsCsv(evs) ==
    IF evs = <<>> THEN File({}, <<>>)
    ELSE File(DetectCols, [n \in 1..Len(evs) |-> EventRow(evs[n])])

\* lines 130-135
DetectWrite ==
    /\ pc = "d_write"
    /\ metrics_file' = File(MetricCols, metric_rows)
    /\ events_file' = EventsCsv(events)
    /\ pc' = "d_done"
    /\ UNCHANGED <<db, threshold_bps, persistence_ms, cfg, ticks, i, last_mid, metric_rows, j,
                   in_event, start, peak, peak_v, events, btvars>>

\* ---------------------------------------------------------------- run_all
\* subprocess.run(..., check=True): backtest.py runs once detect_events.py has
\* ended without an error
RunBacktest ==
    /\ pc \in {"d_done", "d_nometrics"}
    /\ pc' = "b_load"
    /\ UNCHANGED <<db, threshold_bps, persistence_ms, cfg, ticks, i, last_mid, metric_rows, j,
                   in_event, start, peak, peak_v, events, metrics_file, events_file, btvars>>

\* ---------------------------------------------------------- backtest.main
Required == {"start_ms", "end_ms", "min_venue", "max_venue"}

\* load events safely (lines 84-97)
BtLoadEvents ==
    /\ pc = "b_load"
    /\ IF ~events_file.exists \/ events_file.zero
       THEN pc' = "b_nothing" /\ UNCHANGED bt_events
       ELSE IF events_file.cols = {}
       THEN pc' = "b_nothing" /\ UNCHANGED bt_events
       ELSE IF events_file.rows = <<>>
       THEN pc' = "b_nothing" /\ bt_events' = events_file
       ELSE pc' = "b_ticks" /\ bt_events' = events_file
    /\ UNCHANGED <<db, threshold_bps, persistence_ms, cfg, ticks, i, last_mid, metric_rows, j,
                   in_event, start, peak, peak_v, events, metrics_file, events_file,
                   trades_file, bt_ticks, total_cost_bps, latency_ms, n_read, trades, src>>

\* SELECT ts_ms, venue, mid FROM ticks ORDER BY ts_ms ASC, then the dtype clean-up
\* (lines 103-119); no row of the model has a null ts_ms, venue or mid, so dropna
\* keeps every row
BtLoadTicks ==
    /\ pc = "b_ticks"
    /\ bt_ticks' = db
    /\ pc' = IF db = <<>> THEN "b_nothing" ELSE "b_cfg"
    /\ UNCHANGED <<db, threshold_bps, persistence_ms, cfg, ticks, i, last_mid, metric_rows, j,
                   in_event, start, peak, peak_v, events, metrics_file, events_file,
                   trades_file, bt_events, total_cost_bps, latency_ms, n_read, trades, src>>

\* float(v) raises on a value that is no number
FloatRaises(v) == v = None \/ v = Text

RECURSIVE RatSum(_)
RatSum(s) == IF s = <<>> THEN <<0, 1>> ELSE RatAdd(s[1], RatSum(Tail(s)))

\* lines 41-43: an absent key gives {}, and a value that is no mapping gives 0.0,
\* the total of no components
CostsOf(c) == IF c.costs_kind = "dict" THEN c.costs_bps ELSE <<>>

\* only the first three components are counted
total_cost_bps_FirstThree(costs) ==
    LET per_action_bps == RatSum(SubSeq(costs, 1, IF Len(costs) < 3 THEN Len(costs) ELSE 3))
    IN  IF IsNum(per_action_bps) THEN Rat(4 * per_action_bps[1], per_action_bps[2]) ELSE NaN

\* total_cost_bps_from_cfg (lines 39-46); costs is the sequence of costs.values()
CostRaises(costs) == \E n \in 1..Len(costs) : FloatRaises(costs[n])
total_cost_bps_from_cfg(costs) ==
    LET per_action_bps == RatSum(costs)
    IN  IF IsNum(per_action_bps) THEN Rat(4 * per_action_bps[1], per_action_bps[2]) ELSE NaN

\* missing = required_cols - set(events.columns) (line 132)
MissingCols(cols) == Required \ cols

\* costs, latency and the required columns (lines 121-134)
BtConfig ==
    /\ pc = "b_cfg"
    /\ IF CostRaises(CostsOf(cfg))
       THEN pc' = "b_raise_cost" /\ UNCHANGED <<total_cost_bps, latency_ms>>
       ELSE /\ total_cost_bps' = total_cost_bps_from_cfg(CostsOf(cfg))
            /\ latency_ms' = cfg.latency_ms
            /\ pc' = IF MissingCols(bt_events.cols) # {} THEN "b_raise_cols" ELSE "b_loop"
    /\ UNCHANGED <<db, threshold_bps, persistence_ms, cfg, ticks, i, last_mid, metric_rows, j,
                   in_event, start, peak, peak_v, events, metrics_file, events_file,
                   trades_file, bt_events, bt_ticks, n_read, trades, src>>

\* the last of the rows at the least distance
nearest_mid_Last(t, ts_ms, venue) ==
    LET sub == SelectSeq(t, LAMBDA r : r.venue = venue)
    IN  IF sub = <<>> THEN None
        ELSE LET n == CHOOSE n \in 1..Len(sub) :
                          /\ \A l \in 1..Len(sub) :
                                 Abs(sub[n].ts - ts_ms) <= Abs(sub[l].ts - ts_ms)
                          /\ \A l \in (n + 1)..Len(sub) :
                                 Abs(sub[l].ts - ts_ms) > Abs(sub[n].ts - ts_ms)
             IN  <<sub[n].mid, 1>>

\* nearest_mid (lines 49-64): idxmin is the first row of the venue's rows at the
\* least |ts_ms - ts|
nearest_mid(t, ts_ms, venue) ==
    LET sub == SelectSeq(t, LAMBDA r : r.venue = venue)
    IN  IF sub = <<>> THEN None
        ELSE LET n == CHOOSE n \in 1..Len(sub) :
                          /\ \A l \in 1..Len(sub) :
                                 Abs(sub[n].ts - ts_ms) <= Abs(sub[l].ts - ts_ms)
                          /\ \A l \in 1..(n - 1) :
                                 Abs(sub[l].ts - ts_ms) > Abs(sub[n].ts - ts_ms)
             IN  <<sub[n].mid, 1>>

\* lines 149-154: the carried value, None when the column is absent or float() raises
CarriedSpread(cols, r) ==
    IF "spread_bps" \in cols
    THEN IF FloatRaises(r.spread_bps) THEN None ELSE r.spread_bps
    ELSE None

\* a spread of zero is imputed when a mid is unresolved
Reconstructed_Zero(long_entry, short_entry) ==
    IF long_entry # None /\ short_entry # None /\ long_entry[1] + short_entry[1] > 0
    THEN Rat((short_entry[1] - long_entry[1]) * 20000, long_entry[1] + short_entry[1])
    ELSE <<0, 1>>

\* lines 166-169: the estimate from the entry mids, None when it cannot be made
Reconstructed(long_entry, short_entry) ==
    IF long_entry # None /\ short_entry # None /\ long_entry[1] + short_entry[1] > 0
    THEN Rat((short_entry[1] - long_entry[1]) * 20000, long_entry[1] + short_entry[1])
    ELSE None

SpreadOf(cols, r, long_entry, short_entry) ==
    IF CarriedSpread(cols, r) # None THEN CarriedSpread(cols, r)
    ELSE Reconstructed(long_entry, short_entry)

\* gross and net pnl (lines 177-178)
PnlBps(spread_bps) == spread_bps
\* the cost is added
PnlNetBps_Plus(pnl_bps, cost) == RatAdd(pnl_bps, cost)

PnlNetBps(pnl_bps, cost) == RatSub(pnl_bps, cost)

\* the latency is left out
EntryTs_NoLatency(start_ms, lat) == start_ms

\* entry_ts and exit_ts (lines 144-145)
EntryTs(start_ms, lat) == start_ms + lat
ExitTs(end_ms, lat) == end_ms + lat

Trade(r, cols, t, lat, cost) ==
    LET entry_ts == EntryTs(r.start_ms, lat)
        exit_ts == ExitTs(r.end_ms, lat)
        long_entry == nearest_mid(t, entry_ts, r.min_venue)
        short_entry == nearest_mid(t, entry_ts, r.max_venue)
        spread_bps == SpreadOf(cols, r, long_entry, short_entry)
    IN  [start_ms |-> r.start_ms, end_ms |-> r.end_ms,
         duration_ms |-> r.end_ms - r.start_ms,
         entry_ts |-> entry_ts, exit_ts |-> exit_ts,
         long_venue |-> r.min_venue, short_venue |-> r.max_venue,
         long_entry_mid |-> long_entry, short_entry_mid |-> short_entry,
         long_exit_mid |-> nearest_mid(t, exit_ts, r.min_venue),
         short_exit_mid |-> nearest_mid(t, exit_ts, r.max_venue),
         spread_bps |-> spread_bps,
         pnl_bps |-> PnlBps(spread_bps),
         total_cost_bps |-> cost,
         pnl_net_bps |-> PnlNetBps(PnlBps(spread_bps), cost)]

\* the newest trade is put first
AppendTrade_Front(ts, tr) == <<tr>> \o ts

\* trades.append(...) (lines 180-198)
AppendTrade(ts, tr) == Append(ts, tr)

\* one iteration of the loop over events (lines 137-198)
BtEvent ==
    /\ pc = "b_loop"
    /\ n_read < Len(bt_events.rows)
    /\ n_read' = n_read + 1
    /\ LET tr == Trade(bt_events.rows[n_read + 1], bt_events.cols, bt_ticks,
                       latency_ms, total_cost_bps)
       IN  IF tr.spread_bps = None
           THEN UNCHANGED <<trades, src>>
           ELSE /\ trades' = AppendTrade(trades, tr)
                /\ src' = Append(src, n_read + 1)
    /\ UNCHANGED <<db, threshold_bps, persistence_ms, cfg, pc, ticks, i, last_mid,
                   metric_rows, j, in_event, start, peak, peak_v, events, metrics_file,
                   events_file, trades_file, bt_events, bt_ticks, total_cost_bps, latency_ms>>

TradeCols ==
    {"start_ms", "end_ms", "duration_ms", "entry_ts", "exit_ts", "long_venue",
     "short_venue", "long_entry_mid", "short_entry_mid", "long_exit_mid",
     "short_exit_mid", "spread_bps", "pnl_bps", "total_cost_bps", "pnl_net_bps"}

\* an empty trades frame is written too
BtFinish_WriteEmpty ==
    /\ pc = "b_loop"
    /\ n_read = Len(bt_events.rows)
    /\ pc' = IF trades = <<>> THEN "b_notrades" ELSE "b_done"
    /\ trades_file' = File(TradeCols, trades)
    /\ UNCHANGED <<db, threshold_bps, persistence_ms, cfg, ticks, i, last_mid, metric_rows, j,
                   in_event, start, peak, peak_v, events, metrics_file, events_file,
                   bt_events, bt_ticks, total_cost_bps, latency_ms, n_read, trades, src>>

\* lines 200-205: an empty trades frame is not written
BtFinish ==
    /\ pc = "b_loop"
    /\ n_read = Len(bt_events.rows)
    /\ IF trades = <<>>
       THEN pc' = "b_notrades" /\ UNCHANGED trades_file
       ELSE pc' = "b_done" /\ trades_file' = File(TradeCols, trades)
    /\ UNCHANGED <<db, threshold_bps, persistence_ms, cfg, ticks, i, last_mid, metric_rows, j,
                   in_event, start, peak, peak_v, events, metrics_file, events_file,
                   bt_events, bt_ticks, total_cost_bps, latency_ms, n_read, trades, src>>

\* ------------------------------------------- backtest.py run on its own
\* an events file that is not detect_events.py's: with or without a spread_bps
\* column (numbers and empty cells, which read_csv gives as NaN, or cells of
\* text), with venues that may have no ticks, or lacking a required column
BtMids == {361, 399}
BtSpans == {<<0, 100>>, <<100, 300>>}
BtPairs == {<<"A", "B">>, <<"A", "C">>, <<"C", "C">>}
BtCells == {<<24, 1>>, NaN}
BtCfgs == {Cfg(0, <<>>), Cfg(50, <<<<2, 1>>, <<1, 1>>, <<3, 1>>>>)}

BtTickTables == UNION {TickTables(n, BtMids) : n \in 0..MaxBtTicks}

HandRows(pairs, cells) ==
    {CsvRow(sp[1], sp[2], pr[1], pr[2], None, c) :
        sp \in BtSpans, pr \in pairs, c \in cells}

RowSeqs(R) == UNION {[1..m -> R] : m \in 0..MaxRows}

ZeroByte == [exists |-> TRUE, zero |-> TRUE, cols |-> {}, rows |-> <<>>]

\* files of one row more, of events that are traded (A, B) or dropped (C, C)
LongRows ==
    {CsvRow(0, 100, "A", "B", None, None), CsvRow(100, 300, "A", "B", None, None),
     CsvRow(0, 100, "C", "C", None, None)}
LongFiles == {File(Required, rs) : rs \in [1..(MaxRows + 1) -> LongRows]}

\* carried values on pairs with a venue that has no ticks (C never has, A and
\* B have none in some tables); text cells; no spread_bps column; no start_ms
HandFiles ==
    {Missing, ZeroByte, File({}, <<>>)}
    \cup LongFiles
    \cup {File(Required \cup {"spread_bps"}, rs) :
             rs \in RowSeqs(HandRows({<<"A", "B">>, <<"A", "C">>}, BtCells))}
    \cup {File(Required \cup {"spread_bps"}, rs) :
             rs \in RowSeqs(HandRows({<<"A", "B">>, <<"C", "C">>}, {Text}))}
    \cup {File(Required, rs) : rs \in RowSeqs(HandRows(BtPairs, {None}))}
    \cup {File(Required \ {"start_ms"}, rs) :
             rs \in RowSeqs(HandRows({<<"A", "B">>}, {None}))}

InitBt ==
    /\ db \in BtTickTables
    /\ threshold_bps = <<1000, 1>>
    /\ persistence_ms = 0
    /\ cfg \in BtCfgs
    /\ pc = "b_load"
    /\ events_file \in HandFiles
    /\ Fresh

\* ------------------------------------ detect_events.py on any ticks table
\* the table's mid column is REAL NOT NULL and nothing more: three venues, and
\* mids that are zero or negative as well
MaxDetTicks == 4
DetVenues == {"A", "B", "C"}
DetMids == {-361, 0, 361}

\* the ts of the k-th tick of a table whose gaps are gs
RECURSIVE TsAt(_, _)
TsAt(gs, k) == IF k = 1 THEN 0 ELSE TsAt(gs, k - 1) + gs[k - 1]

\* the table of n ticks with venues and mids f and gaps gs, first tick at ts 0
TableOf(n, f, gs) == [k \in 1..n |-> Tick(TsAt(gs, k), f[k][1], f[k][2])]

InitDet ==
    /\ \E n \in 0..MaxDetTicks :
           \E f \in [1..n -> DetVenues \X DetMids], gs \in [1..(n - 1) -> Gaps] :
               db = TableOf(n, f, gs)
    /\ threshold_bps = <<1000, 1>>
    /\ persistence_ms = 0
    /\ cfg \in PipelineCfgs
    /\ pc = "d_load"
    /\ events_file = Missing
    /\ Fresh

\* --------------------------------------- backtest.py on any costs_bps
\* the values of costs_bps: numbers, text that is no number, and a key without
\* a value (None)
MaxCosts == 4
CostValues == {<<2, 1>>, <<1, 1>>, <<3, 1>>, <<1, 2>>, Text, None}
CostCfgs ==
    {NoCosts(0), ScalarCosts(0)}
    \cup {Cfg(0, c) : c \in UNION {[1..m -> CostValues] : m \in 0..MaxCosts}}
CostFiles ==
    {File(Required, <<CsvRow(0, 100, "A", "B", None, None)>>),
     File(Required \cup {"spread_bps"}, <<CsvRow(0, 100, "A", "B", None, <<24, 1>>)>>)}

InitCost ==
    /\ db = <<Tick(0, "A", 361), Tick(100, "B", 399)>>
    /\ threshold_bps = <<1000, 1>>
    /\ persistence_ms = 0
    /\ cfg \in CostCfgs
    /\ pc = "b_load"
    /\ events_file \in CostFiles
    /\ Fresh

\* ------------------------- the pipeline on a longer stream of two venues
\* venue A quotes 361 once and venue B moves against it: every tick from the
\* second on gives a sample of 0, 1000 or 800000/401 bps; thresholds of zero
\* too
MaxExTicks == 6
ExMids == {361, 399, 441}
ExThresholds == {<<0, 1>>, <<1000, 1>>, <<1500, 1>>}

QuoteTable(n, f, gs) ==
    TableOf(n, [k \in 1..n |-> IF k = 1 THEN <<"A", 361>> ELSE <<"B", f[k]>>], gs)

InitEx ==
    /\ \E n \in 0..MaxExTicks :
           \E f \in [2..n -> ExMids], gs \in [1..(n - 1) -> Gaps] :
               db = QuoteTable(n, f, gs)
    /\ threshold_bps \in ExThresholds
    /\ persistence_ms \in Persistences
    /\ cfg \in PipelineCfgs
    /\ pc = "d_load"
    /\ events_file = Missing
    /\ Fresh

\* ---------------------- runs on a processed directory of an earlier run
\* run_all.py (from d_load) or backtest.py alone (from b_load) where files of
\* an earlier run may lie: a metrics file, a trades file, and an events file
\* of an event that is traded (A, B) or dropped (C, C)
OldMetrics == File(MetricCols, <<MetricRow(100, <<<<"A", 361>>, <<"B", 441>>>>)>>)
OldEvents ==
    {File(Required, <<CsvRow(0, 100, pr[1], pr[2], None, None)>>) :
        pr \in {<<"A", "B">>, <<"C", "C">>}}
OldTrades ==
    File(TradeCols,
         <<Trade(CsvRow(0, 100, "A", "B", None, None), Required,
                 <<Tick(0, "A", 361), Tick(100, "B", 441)>>, 0, <<24, 1>>)>>)

InitStale ==
    /\ \E n \in 0..MaxBtTicks :
           \E f \in [1..n -> Venues \X BtMids], gs \in [1..(n - 1) -> Gaps] :
               db = TableOf(n, f, gs)
    /\ threshold_bps = <<1000, 1>>
    /\ persistence_ms \in Persistences
    /\ cfg \in PipelineCfgs
    /\ pc \in {"d_load", "b_load"}
    /\ metrics_file \in {Missing, OldMetrics}
    /\ events_file \in {Missing} \cup OldEvents
    /\ trades_file \in {Missing, OldTrades}
    /\ FreshLocals

Detect == DetectLoad \/ MergeTick \/ MetricsBuilt \/ ExtractSample \/ Flush \/ DetectWrite
Backtest == BtLoadEvents \/ BtLoadTicks \/ BtConfig \/ BtEvent \/ BtFinish

Next == Detect \/ RunBacktest \/ Backtest

Spec == Init /\ [][Next]_vars

SpecBt == InitBt /\ [][Backtest]_vars

SpecDet == InitDet /\ [][Detect]_vars

SpecCost == InitCost /\ [][Backtest]_vars

\* the pipeline of run_all.py on any ticks table
SpecPipe == InitDet /\ [][Next]_vars

SpecEx == InitEx /\ [][Next]_vars

SpecStale == InitStale /\ [][Next]_vars
\* ================================================================ claims
\* The intervals of the metric stream, stated from the samples alone: sample a
\* opens an interval when it is at or above the threshold and its predecessor is
\* not; the interval ends at the first later sample below the threshold, or, once
\* the stream is exhausted, at the last sample.
Above(n) == ~(metric_rows[n].spread_bps[1] * threshold_bps[2]
                 < threshold_bps[1] * metric_rows[n].spread_bps[2])
IsEntry(a) == Above(a) /\ (a = 1 \/ ~Above(a - 1))
Exhausted == pc \notin {"d_load", "d_merge", "d_extract"}
ExitsOf(a) == {b \in (a + 1)..j : ~Above(b)}
FirstExit(a) == CHOOSE b \in ExitsOf(a) : \A c \in ExitsOf(a) : b <= c
Dangling(a) == a \in 1..j /\ IsEntry(a) /\ ExitsOf(a) = {}
EndTs(a) ==
    IF ExitsOf(a) # {} THEN metric_rows[FirstExit(a)].ts_ms
    ELSE metric_rows[Len(metric_rows)].ts_ms
Dur(a) == EndTs(a) - metric_rows[a].ts_ms
Qualifies(a) ==
    /\ a \in 1..j
    /\ IsEntry(a)
    /\ ExitsOf(a) # {} \/ Exhausted
    /\ Dur(a) >= persistence_ms
\* the entries of the intervals that are to be events, in stream order
RECURSIVE QualSeq(_)
QualSeq(n) ==
    IF n = 0 THEN <<>>
    ELSE IF Qualifies(n) THEN Append(QualSeq(n - 1), n) ELSE QualSeq(n - 1)
Emitted == QualSeq(j)
\* the samples of the interval opened at a
Inside(a) ==
    IF ExitsOf(a) # {} THEN a..(FirstExit(a) - 1) ELSE a..Len(metric_rows)

\* C1: every emitted event, closed by a below-threshold sample or by the
\* end-of-stream flush, is an interval of the stream with duration_ms =
\* end_ms - start_ms >= persistence_ms; a shorter interval gives no event.
C1_DurationFilter ==
    \A n \in 1..Len(events) :
        /\ events[n].duration_ms = events[n].end_ms - events[n].start_ms
        /\ events[n].duration_ms >= persistence_ms
        /\ \E a \in 1..j :
               /\ Qualifies(a)
               /\ events[n].start_ms = metric_rows[a].ts_ms
               /\ events[n].end_ms = EndTs(a)

\* an interval of 100 ms was discarded and one of exactly 200 ms was kept
C1_Witness ==
    /\ pc = "d_done"
    /\ persistence_ms = 200
    /\ Len(events) = 1
    /\ events[1].duration_ms = 200
    /\ ~Dangling(1)

\* C2: an interval still open when the stream is exhausted is closed at the
\* last sample's timestamp and is emitted iff it passes the duration filter.
C2_FlushAtLastSample ==
    Exhausted =>
        /\ Len(events) = Len(Emitted)
        /\ \A a \in 1..j : Dangling(a) =>
               LET last == metric_rows[Len(metric_rows)].ts_ms
                   ev == events[Len(events)]
               IN  IF last - metric_rows[a].ts_ms >= persistence_ms
                   THEN /\ events # <<>>
                        /\ ev.start_ms = metric_rows[a].ts_ms
                        /\ ev.end_ms = last
                        /\ ev.duration_ms = last - metric_rows[a].ts_ms
                   ELSE \A n \in 1..Len(events) :
                            events[n].start_ms # metric_rows[a].ts_ms

\* three samples of one spread, all at or above the threshold, persistence 0:
\* exactly one event, from the first sample's ts to the last one's
C2_Witness ==
    /\ pc = "d_done"
    /\ persistence_ms = 0
    /\ Len(metric_rows) = 3
    /\ \A n \in 1..3 : Above(n) /\ metric_rows[n].spread_bps = metric_rows[1].spread_bps
    /\ Len(events) = 1
    /\ events[1].start_ms = metric_rows[1].ts_ms
    /\ events[1].end_ms = metric_rows[3].ts_ms
    /\ events[1].end_ms = events[1].start_ms + 200

\* C3: the extractor is inside exactly when the last sample read is at or above
\* the threshold; start is the ts of the first sample of the current run of such
\* samples (a later sample equal to the threshold does not reset it); every
\* event starts at its interval's entry sample and ends at the first later
\* sample below the threshold.
C3_EntryExit ==
    pc = "d_extract" =>
        /\ in_event <=> (j >= 1 /\ Above(j))
        /\ in_event =>
               \E a \in 1..j :
                   /\ IsEntry(a)
                   /\ \A b \in a..j : Above(b)
                   /\ start = metric_rows[a].ts_ms
        /\ Len(events) = Len(Emitted)
        /\ \A n \in 1..Len(events) :
               /\ n <= Len(Emitted)
               /\ events[n].start_ms = metric_rows[Emitted[n]].ts_ms
               /\ events[n].end_ms = metric_rows[FirstExit(Emitted[n])].ts_ms

\* samples below, at, above and below the threshold cannot be had with three
\* samples; here: at the threshold, at the threshold again, below
C3_Witness ==
    /\ pc = "d_extract"
    /\ j = 3
    /\ metric_rows[1].spread_bps = threshold_bps
    /\ metric_rows[2].spread_bps = threshold_bps
    /\ ~Above(3)
    /\ Len(events) = 1
    /\ events[1].start_ms = metric_rows[1].ts_ms
    /\ events[1].end_ms = metric_rows[3].ts_ms
    /\ events[1].duration_ms = 200

\* the first sample of S with the greatest spread of S
FirstMax(S) ==
    CHOOSE m \in S :
        /\ \A n \in S : ~(metric_rows[m].spread_bps[1] * metric_rows[n].spread_bps[2]
                            < metric_rows[n].spread_bps[1] * metric_rows[m].spread_bps[2])
        /\ \A n \in S : n < m =>
               metric_rows[n].spread_bps[1] * metric_rows[m].spread_bps[2]
                   < metric_rows[m].spread_bps[1] * metric_rows[n].spread_bps[2]

\* C4: the venue pair of every event is the pair of the earliest sample of its
\* interval whose spread is the interval's greatest.
C4_PairAtPeak ==
    \A n \in 1..Len(events) :
        /\ n <= Len(Emitted)
        /\ LET m == FirstMax(Inside(Emitted[n]))
           IN  /\ events[n].min_venue = metric_rows[m].min_venue
               /\ events[n].max_venue = metric_rows[m].max_venue

\* the pair of the event is not the pair of its entry sample: the spread grew
\* after the venues had changed places
C4_Witness ==
    /\ pc = "d_done"
    /\ Len(events) = 1
    /\ LET a == Emitted[1]
       IN  /\ events[1].min_venue # metric_rows[a].min_venue
           /\ FirstMax(Inside(a)) > a + 1

\* the last tick of venue v among the first n ticks, 0 when there is none
LastOf(v, n) ==
    IF \E m \in 1..n : ticks[m].venue = v
    THEN CHOOSE m \in 1..n : ticks[m].venue = v /\ \A l \in (m + 1)..n : ticks[l].venue # v
    ELSE 0

\* C5: after any prefix of the tick stream the merger holds, for each venue, the
\* mid of the last tick of that venue in the prefix, and nothing for a venue
\* with no tick in the prefix.
C5_AsOfLatest ==
    /\ \A v \in Venues :
           IF LastOf(v, i) = 0
           THEN \A n \in 1..Len(last_mid) : last_mid[n][1] # v
           ELSE \E n \in 1..Len(last_mid) :
                    last_mid[n] = <<v, ticks[LastOf(v, i)].mid>>
    /\ \A m, n \in 1..Len(last_mid) : last_mid[m][1] = last_mid[n][1] => m = n

\* venue A's mid is two ticks stale, and a tick of A with another mid is still
\* to come
C5_Witness ==
    /\ pc = "d_merge"
    /\ i = 3
    /\ Len(ticks) = 4
    /\ ticks[1].venue = "A"
    /\ ticks[2].venue = "B"
    /\ ticks[3].venue = "B"
    /\ ticks[3].mid # ticks[2].mid
    /\ ticks[4].venue = "A"
    /\ ticks[4].mid # ticks[1].mid

\* the tick on which the second distinct venue first reports, 0 when none does
SecondVenueAt ==
    IF \E m \in 1..Len(ticks) : ticks[m].venue # ticks[1].venue
    THEN CHOOSE m \in 1..Len(ticks) :
             /\ ticks[m].venue # ticks[1].venue
             /\ \A l \in 1..(m - 1) : ticks[l].venue = ticks[1].venue
    ELSE 0

\* C6: no sample for a tick read while fewer than two venues have reported; from
\* the tick of the second venue on, one sample per tick, with that tick's ts.
C6_OneSamplePerTick ==
    LET f == SecondVenueAt
    IN  /\ (f = 0 \/ i < f) => metric_rows = <<>>
        /\ (f # 0 /\ i >= f) =>
               /\ Len(metric_rows) = i - f + 1
               /\ \A n \in 1..Len(metric_rows) : metric_rows[n].ts_ms = ticks[f + n - 1].ts

\* the second venue reports on the third tick: ticks 1 and 2 give no sample,
\* ticks 3 and 4 one each
C6_Witness ==
    /\ pc = "d_merge"
    /\ i = 4
    /\ SecondVenueAt = 3
    /\ Len(metric_rows) = 2
    /\ metric_rows[1].ts_ms = 200
    /\ metric_rows[2].ts_ms = 300
\* ------------------------------------------------------ backtest claims
Rows == bt_events.rows
Traded == {src[n] : n \in 1..Len(src)}
\* neither venue of the event has a tick in the tick table
NoCoverage(r) == \A m \in 1..Len(db) : db[m].venue \notin {r.min_venue, r.max_venue}
\* the event carries no spread_bps value: no such column, or text float() rejects
NoCarried(r) == "spread_bps" \notin bt_events.cols \/ r.spread_bps = Text

\* C7 as stated: with or without a carried spread_bps column, an event whose
\* venues both have no ticks gives no trade, and there are fewer trades than
\* events.
C7_Original ==
    \A x \in 1..Len(Rows) :
        NoCoverage(Rows[x]) => x \notin Traded /\ Len(trades) < Len(Rows)

\* C7 amended: an event that carries no spread_bps value and whose venues both
\* have no ticks gives no trade, and there are fewer trades than events.
C7_Amended ==
    \A x \in 1..Len(Rows) :
        (NoCoverage(Rows[x]) /\ NoCarried(Rows[x])) =>
            x \notin Traded /\ Len(trades) < Len(Rows)

\* of two events without a spread_bps column the first, on a venue without
\* ticks, is dropped and the second is traded
C7_Witness ==
    /\ pc = "b_done"
    /\ "spread_bps" \notin bt_events.cols
    /\ Len(Rows) = 2
    /\ Rows[1].min_venue = "C"
    /\ Rows[1].max_venue = "C"
    /\ src = <<2>>

\* C8 as stated: a trade's spread_bps is the carried value when the field is
\* present and usable (a number); otherwise both entry mids are resolved and it
\* is (short_entry - long_entry) / ((long_entry + short_entry) / 2) * 1e4; no
\* trade has a null spread.
C8_SpreadSource ==
    \A n \in 1..Len(trades) :
        LET r == Rows[src[n]]
            t == trades[n]
        IN  IF "spread_bps" \in bt_events.cols /\ IsNum(r.spread_bps)
            THEN t.spread_bps = r.spread_bps
            ELSE /\ IsNum(t.long_entry_mid)
                 /\ IsNum(t.short_entry_mid)
                 /\ IsNum(t.spread_bps)
                 /\ t.spread_bps[1] * (t.long_entry_mid[1] + t.short_entry_mid[1])
                        = (t.short_entry_mid[1] - t.long_entry_mid[1]) * 20000
                              * t.spread_bps[2]

\* C9 as stated: on an events input with a peak_bps column (detect_events.py's
\* output) a trade's spread_bps is the event's carried peak_bps.
C9_UsesPeak ==
    \A n \in 1..Len(trades) :
        "peak_bps" \in bt_events.cols => trades[n].spread_bps = Rows[src[n]].peak_bps

\* C10: every trade has pnl_bps = spread_bps and pnl_net_bps = pnl_bps -
\* total_cost_bps, with total_cost_bps the one scalar of the run on every trade.
C10_NetPnl ==
    \A n \in 1..Len(trades) :
        LET t == trades[n]
            p == t.pnl_bps
            c == t.total_cost_bps
            net == t.pnl_net_bps
        IN  /\ p = t.spread_bps
            /\ c = total_cost_bps
            /\ IsNum(c)
            /\ \A m \in 1..Len(trades) : trades[m].total_cost_bps = c
            /\ IF IsNum(p)
               THEN /\ IsNum(net)
                    /\ net[1] * p[2] * c[2] = (p[1] * c[2] - c[1] * p[2]) * net[2]
               ELSE ~IsNum(net)

\* two trades of different durations, both with spread_bps 24 and cost 24: net 0
C10_Witness ==
    /\ pc = "b_done"
    /\ total_cost_bps = <<24, 1>>
    /\ Len(trades) = 2
    /\ trades[1].duration_ms # trades[2].duration_ms
    /\ \A n \in 1..2 : /\ trades[n].spread_bps = <<24, 1>>
                       /\ trades[n].total_cost_bps = <<24, 1>>
                       /\ trades[n].pnl_net_bps = <<0, 1>>

\* ----------------------------------------------------------- cost claims
\* twice a component's value (the values of the configurations are halves)
Twice(v) == v[1] * (2 \div v[2])
RECURSIVE SumTwice(_)
SumTwice(costs) == IF costs = <<>> THEN 0 ELSE Twice(costs[1]) + SumTwice(Tail(costs))
\* the components float() accepts
NumericOnes(costs) == SelectSeq(costs, LAMBDA v : IsNum(v))
\* the run has passed line 122
CostComputed == pc \in {"b_loop", "b_done", "b_notrades", "b_raise_cols"}

\* C11: the total cost is 4 times the sum of all the values of costs_bps,
\* however many components there are; it is 0 when costs_bps is absent or empty,
\* and 24 for the values 2, 1 and 3.
C11_FourTimesSum ==
    CostComputed =>
        /\ IsNum(total_cost_bps)
        /\ total_cost_bps[1] = 2 * SumTwice(CostsOf(cfg)) * total_cost_bps[2]
        /\ (cfg.costs_kind = "absent" \/ cfg.costs_bps = <<>>) => total_cost_bps = <<0, 1>>
        /\ (cfg.costs_kind = "dict" /\ cfg.costs_bps = <<<<2, 1>>, <<1, 1>>, <<3, 1>>>>)
               => total_cost_bps = <<24, 1>>

\* four components, 2, 1, 3 and 0.5: the total is 26, not the 24 of the first
\* three
C11_Witness ==
    /\ pc = "b_done"
    /\ cfg.costs_kind = "dict"
    /\ cfg.costs_bps = <<<<2, 1>>, <<1, 1>>, <<3, 1>>, <<1, 2>>>>
    /\ total_cost_bps = <<26, 1>>
    /\ Len(trades) = 1
    /\ trades[1].total_cost_bps = <<26, 1>>

\* C12 as stated: a component of costs_bps that is missing or no number counts
\* as zero, the others are still summed, and the cost computation never ends
\* the run with an error.
C12_CostDegrades ==
    /\ pc # "b_raise_cost"
    /\ CostComputed =>
           /\ IsNum(total_cost_bps)
           /\ total_cost_bps[1]
                  = 2 * SumTwice(NumericOnes(CostsOf(cfg))) * total_cost_bps[2]

\* ------------------------------------------------ error handling claims
Raised == pc \in {"d_raise_empty", "d_raise_zerodiv", "b_raise_cost", "b_raise_cols"}
\* backtest.py has ended, by a return or by an exception
BtEnded == pc \in {"b_nothing", "b_notrades", "b_done", "b_raise_cost", "b_raise_cols"}
\* backtest.py is running or has ended
InBacktest == BtEnded \/ pc \in {"b_load", "b_ticks", "b_cfg", "b_loop"}
\* the events file has rows
HasEvents == events_file.exists /\ ~events_file.zero /\ events_file.rows # <<>>

\* C13 as stated: a run on an events input that has rows and lacks a required
\* column ends with the error that names the missing columns and leaves no
\* trades file, whatever the tick table holds.
C13_SchemaAbort ==
    (BtEnded /\ HasEvents /\ MissingCols(events_file.cols) # {}) =>
        /\ pc = "b_raise_cols"
        /\ MissingCols(bt_events.cols) = MissingCols(events_file.cols)
        /\ trades_file = Missing

\* C14 as stated: on an empty tick table, and in the backtest on an events file
\* that is missing, zero-byte, column-less or row-less, the stage raises no
\* error and leaves no output row.
C14_EmptyInputs ==
    (db = <<>> \/ (InBacktest /\ ~HasEvents)) =>
        /\ ~Raised
        /\ metrics_file.rows = <<>>
        /\ events_file.rows = <<>>
        /\ trades_file.rows = <<>>

\* ------------------------------------------------------ trade loop claims
\* the ticks of venue v in the tick table
TicksOf(v) == {m \in 1..Len(db) : db[m].venue = v}
\* the event survives: it carries a spread_bps that float() accepts, or both of
\* its venues have ticks (the mids of the tables are positive)
Survives(r) ==
    \/ "spread_bps" \in bt_events.cols /\ r.spread_bps # Text /\ r.spread_bps # None
    \/ TicksOf(r.min_venue) # {} /\ TicksOf(r.max_venue) # {}

\* C15: the trades are the surviving events, one trade each, in the order of the
\* events; a dropped event leaves no row and the loop goes on to the last event.
C15_Subsequence ==
    /\ Len(trades) = Len(src)
    /\ \A n \in 1..Len(src) : src[n] \in 1..n_read
    /\ \A m, n \in 1..Len(src) : m < n => src[m] < src[n]
    /\ \A n \in 1..Len(trades) :
           /\ trades[n].start_ms = Rows[src[n]].start_ms
           /\ trades[n].end_ms = Rows[src[n]].end_ms
           /\ trades[n].long_venue = Rows[src[n]].min_venue
           /\ trades[n].short_venue = Rows[src[n]].max_venue
    /\ pc \in {"b_loop", "b_done", "b_notrades"} =>
           \A x \in 1..n_read : x \in Traded <=> Survives(Rows[x])
    /\ pc \in {"b_done", "b_notrades"} => n_read = Len(Rows)
    /\ pc = "b_done" => trades_file.rows = trades

\* three events, the second on a venue without ticks: it is dropped, the first
\* and the third are traded in that order
C15_Witness ==
    /\ pc = "b_done"
    /\ Len(Rows) = 3
    /\ ~Survives(Rows[2])
    /\ src = <<1, 3>>
    /\ Rows[1].start_ms # Rows[3].start_ms
    /\ trades_file.rows[1].start_ms = Rows[1].start_ms
    /\ trades_file.rows[2].start_ms = Rows[3].start_ms

\* ------------------------------------------------------- metric claims
\* C16 as stated: every metric sample has max_mid >= min_mid and
\* spread_bps >= 0.
C16_NonNegativeSpread ==
    \A n \in 1..Len(metric_rows) :
        /\ metric_rows[n].max_mid >= metric_rows[n].min_mid
        /\ metric_rows[n].spread_bps[1] >= 0

\* C17 as stated: a tick whose snapshot has avg_mid <= 0 gives no sample and no
\* error, and the ticks after it are processed.
C17_UndefinedSkipped ==
    /\ pc # "d_raise_zerodiv"
    /\ \A n \in 1..Len(metric_rows) :
           metric_rows[n].min_mid + metric_rows[n].max_mid > 0

\* the tick sample n was made on: the ts of the ticks of a table are distinct
SampleTick(n) == CHOOSE m \in 1..Len(ticks) : ticks[m].ts = metric_rows[n].ts_ms
\* the venues with a tick among the first m ticks, a venue's mid as of tick m,
\* and the tick on which a venue first reported
Reported(m) == {ticks[l].venue : l \in 1..m}
CurMid(v, m) == ticks[LastOf(v, m)].mid
FirstOf(v) ==
    CHOOSE l \in 1..Len(ticks) :
        ticks[l].venue = v /\ \A k \in 1..(l - 1) : ticks[k].venue # v

\* C18: min_mid (max_mid) is the least (greatest) of the venues' current mids,
\* and of the venues that hold it min_venue (max_venue) is the one whose first
\* tick is the earliest, whichever of them was updated last.
C18_FirstSeenWins ==
    \A n \in 1..Len(metric_rows) :
        LET m == SampleTick(n)
            lo == metric_rows[n].min_venue
            hi == metric_rows[n].max_venue
        IN  /\ lo \in Reported(m)
            /\ hi \in Reported(m)
            /\ CurMid(lo, m) = metric_rows[n].min_mid
            /\ CurMid(hi, m) = metric_rows[n].max_mid
            /\ \A v \in Reported(m) :
                   /\ CurMid(v, m) >= metric_rows[n].min_mid
                   /\ CurMid(v, m) <= metric_rows[n].max_mid
                   /\ CurMid(v, m) = metric_rows[n].min_mid => FirstOf(lo) <= FirstOf(v)
                   /\ CurMid(v, m) = metric_rows[n].max_mid => FirstOf(hi) <= FirstOf(v)

\* B reports first, then A with the least mid, then C; B's update on the fourth
\* tick ties it with A: min_venue is B, the first to report, and not A, which
\* has held the least mid for longer
C18_Witness ==
    /\ pc = "d_merge"
    /\ i = 4
    /\ ticks[1].venue = "B"
    /\ ticks[2].venue = "A"
    /\ ticks[3].venue = "C"
    /\ ticks[4].venue = "B"
    /\ ticks[4].mid = ticks[2].mid
    /\ ticks[1].mid # ticks[2].mid
    /\ ticks[3].mid > ticks[2].mid
    /\ Len(metric_rows) = 3
    /\ metric_rows[3].min_venue = "B"
    /\ metric_rows[3].max_venue = "C"

\* ------------------------------------------------------- lookup claims
\* x is the mid of the first of venue v's ticks at the least distance from ts t,
\* or None when v has no tick
NearestIs(x, v, t) ==
    IF TicksOf(v) = {} THEN x = None
    ELSE \E m \in TicksOf(v) :
             /\ x = <<db[m].mid, 1>>
             /\ \A l \in TicksOf(v) :
                    /\ Abs(db[m].ts - t) <= Abs(db[l].ts - t)
                    /\ l < m => Abs(db[l].ts - t) > Abs(db[m].ts - t)

\* C19: each of a trade's four mids is the mid of a tick of its own venue at the
\* least |tick.ts - ts|, the first such tick of the ts-ordered table when two are
\* equally near, and None when the venue has no tick.
C19_NearestMid ==
    \A n \in 1..Len(trades) :
        /\ NearestIs(trades[n].long_entry_mid, trades[n].long_venue, trades[n].entry_ts)
        /\ NearestIs(trades[n].short_entry_mid, trades[n].short_venue, trades[n].entry_ts)
        /\ NearestIs(trades[n].long_exit_mid, trades[n].long_venue, trades[n].exit_ts)
        /\ NearestIs(trades[n].short_exit_mid, trades[n].short_venue, trades[n].exit_ts)

\* venue A has ticks at 0 and 100, venue C has none; the lookup at 50 is
\* equally near to both ticks of A and returns the first one's mid, the lookups
\* for C return None and the trade is still made
C19_Witness ==
    /\ pc = "b_done"
    /\ Len(db) = 2
    /\ db[1].venue = "A"
    /\ db[2].venue = "A"
    /\ db[1].mid # db[2].mid
    /\ Len(trades) >= 1
    /\ trades[1].long_venue = "A"
    /\ trades[1].short_venue = "C"
    /\ trades[1].entry_ts = 50
    /\ trades[1].long_entry_mid = <<db[1].mid, 1>>
    /\ trades[1].short_entry_mid = None
    /\ trades[1].short_exit_mid = None

\* C20: a trade's entry_ts and exit_ts are its event's start_ms and end_ms plus
\* latency_ms, its long and short venues are the event's min_venue and
\* max_venue, and its entry mids are looked up at entry_ts and its exit mids at
\* exit_ts, each for its own venue.
C20_LatencyAndVenues ==
    \A n \in 1..Len(trades) :
        LET r == Rows[src[n]]
            t == trades[n]
        IN  /\ t.entry_ts = r.start_ms + cfg.latency_ms
            /\ t.exit_ts = r.end_ms + cfg.latency_ms
            /\ t.long_venue = r.min_venue
            /\ t.short_venue = r.max_venue
            /\ NearestIs(t.long_entry_mid, r.min_venue, r.start_ms + cfg.latency_ms)
            /\ NearestIs(t.short_entry_mid, r.max_venue, r.start_ms + cfg.latency_ms)
            /\ NearestIs(t.long_exit_mid, r.min_venue, r.end_ms + cfg.latency_ms)
            /\ NearestIs(t.short_exit_mid, r.max_venue, r.end_ms + cfg.latency_ms)

\* latency 50 on the event 0..100 of the pair A, B, with A's ticks at 0 and 100
\* and a carried spread: entry at 50 and exit at 150, and the long leg's entry
\* mid and exit mid are those of two different ticks
C20_Witness ==
    /\ pc = "b_done"
    /\ cfg.latency_ms = 50
    /\ Len(db) = 2
    /\ db[1].venue = "A"
    /\ db[2].venue = "A"
    /\ db[1].mid # db[2].mid
    /\ Len(trades) = 1
    /\ Rows[1].start_ms = 0
    /\ Rows[1].end_ms = 100
    /\ Rows[1].min_venue = "A"
    /\ Rows[1].max_venue = "B"
    /\ trades[1].entry_ts = 50
    /\ trades[1].exit_ts = 150
    /\ trades[1].long_venue = "A"
    /\ trades[1].short_venue = "B"
    /\ trades[1].long_entry_mid = <<db[1].mid, 1>>
    /\ trades[1].long_exit_mid = <<db[2].mid, 1>>

\* ------------------------------------------------------ venue state claims
\* the venues of a dict and its entries
KeysOf(d) == {d[k][1] : k \in 1..Len(d)}
ItemsOf(d) == {d[k] : k \in 1..Len(d)}

\* C21: a step changes last_mid only by reading one tick; every entry of a
\* venue other than that tick's is the same after the step, the tick's venue
\* holds the tick's mid, and no venue leaves the dict.
C21_OneEntryPerTick ==
    [][/\ KeysOf(last_mid) \subseteq KeysOf(last_mid')
       /\ last_mid' # last_mid =>
              /\ i' = i + 1
              /\ KeysOf(last_mid') = KeysOf(last_mid) \cup {ticks[i'].venue}
              /\ <<ticks[i'].venue, ticks[i'].mid>> \in ItemsOf(last_mid')
              /\ \A e \in ItemsOf(last_mid) :
                     e[1] # ticks[i'].venue => e \in ItemsOf(last_mid')]_vars

\* three venues have reported and the fourth tick has given the first of them
\* another mid: the entries of the other two are those of their own ticks
C21_Witness ==
    /\ pc = "d_merge"
    /\ i = 4
    /\ Cardinality({ticks[k].venue : k \in 1..3}) = 3
    /\ ticks[4].venue = ticks[1].venue
    /\ ticks[4].mid # ticks[1].mid
    /\ last_mid = <<<<ticks[1].venue, ticks[4].mid>>, <<ticks[2].venue, ticks[2].mid>>,
                    <<ticks[3].venue, ticks[3].mid>>>>

\* ---------------------------------------------------------- output claims
\* detect_events.py is before its writes, or has ended without writing
BeforeDetectWrite ==
    pc \in {"d_load", "d_merge", "d_extract", "d_write", "d_nometrics",
            "d_raise_empty", "d_raise_zerodiv"}

\* C22: the metrics and events files are there only once detect_events.py has
\* read every tick and every sample and has flushed, and they hold all the
\* samples and all the events; the trades file is there only once backtest.py
\* has read every event, and holds all the trades; a run that ended with an
\* error has written no file of its stage.
C22_WriteAfterCompute ==
    /\ BeforeDetectWrite => ~metrics_file.exists /\ ~events_file.exists
    /\ (metrics_file.exists \/ events_file.exists) =>
           /\ i = Len(ticks)
           /\ j = Len(metric_rows)
           /\ metrics_file.exists /\ metrics_file.rows = metric_rows
           /\ events_file.exists /\ Len(events_file.rows) = Len(events)
           /\ Len(events) = Len(Emitted)
           /\ \A n \in 1..Len(events) :
                  /\ events_file.rows[n].start_ms = events[n].start_ms
                  /\ events_file.rows[n].end_ms = events[n].end_ms
    /\ pc # "b_done" => ~trades_file.exists
    /\ trades_file.exists =>
           /\ n_read = Len(bt_events.rows)
           /\ trades_file.rows = trades

\* two venues gave a sample, and the next tick made the average of the least
\* and the greatest mid zero: the run ended with ZeroDivisionError and the
\* sample already computed is in no file
C22_Witness ==
    /\ pc = "d_raise_zerodiv"
    /\ Len(metric_rows) >= 1
    /\ i = Len(ticks)
    /\ ~metrics_file.exists
    /\ ~events_file.exists
    /\ ~trades_file.exists

\* ------------------------------------------------------- extractor claims
\* the intervals that closed and were discarded by the duration filter
Discarded(a) == a \in 1..j /\ IsEntry(a) /\ ExitsOf(a) # {} /\ ~Qualifies(a)

\* C23: every event has start_ms <= end_ms, consecutive events are in stream
\* order with e.end_ms <= f.start_ms, and an event's start_ms and peak are those
\* of samples of its own interval, which lie after the closing sample of every
\* interval discarded before it.
C23_OrderedDisjoint ==
    /\ Len(events) <= Len(Emitted)
    /\ \A n \in 1..Len(events) :
           /\ events[n].start_ms <= events[n].end_ms
           /\ n < Len(events) => events[n].end_ms <= events[n + 1].start_ms
           /\ events[n].start_ms = metric_rows[Emitted[n]].ts_ms
           /\ \E b \in Inside(Emitted[n]) :
                  /\ b <= j
                  /\ events[n].peak_bps = metric_rows[b].spread_bps
           /\ \A a \in 1..j :
                  (Discarded(a) /\ a < Emitted[n]) =>
                      /\ events[n].start_ms >= metric_rows[FirstExit(a)].ts_ms
                      /\ \A b \in Inside(Emitted[n]) : b > FirstExit(a)

\* persistence 200: an interval of 100 ms with the greatest spread is
\* discarded, and the event after it starts at its own entry sample and has the
\* lesser peak of its own samples
C23_Witness ==
    /\ pc = "d_done"
    /\ persistence_ms = 200
    /\ Len(metric_rows) = 5
    /\ Discarded(1)
    /\ RatGt(metric_rows[1].spread_bps, metric_rows[3].spread_bps)
    /\ Len(events) = 1
    /\ events[1].start_ms = metric_rows[3].ts_ms
    /\ events[1].end_ms = metric_rows[5].ts_ms
    /\ events[1].peak_bps = metric_rows[3].spread_bps
    /\ RatLt(events[1].peak_bps, metric_rows[1].spread_bps)

\* C24: every event's peak_bps is at or above the threshold and is the greatest
\* spread of the samples of its interval, from the entry sample to the one
\* before the closing sample, or to the last sample for a flushed event.
C24_PeakIsMax ==
    \A n \in 1..Len(events) :
        /\ n <= Len(Emitted)
        /\ RatGeq(events[n].peak_bps, threshold_bps)
        /\ LET a == Emitted[n]
               last == IF ExitsOf(a) # {} THEN FirstExit(a) - 1 ELSE Len(metric_rows)
           IN  /\ \A b \in a..last : RatGeq(events[n].peak_bps, metric_rows[b].spread_bps)
               /\ \E b \in a..last : events[n].peak_bps = metric_rows[b].spread_bps
               /\ ExitsOf(a) # {} =>
                      RatGt(events[n].peak_bps, metric_rows[FirstExit(a)].spread_bps)

\* a flushed event whose greatest spread is that of the last sample of the
\* stream, after an entry at the threshold
C24_Witness ==
    /\ pc = "d_done"
    /\ threshold_bps = <<1000, 1>>
    /\ Len(metric_rows) = 4
    /\ ~Above(1)
    /\ metric_rows[2].spread_bps = threshold_bps
    /\ metric_rows[3].spread_bps = threshold_bps
    /\ RatGt(metric_rows[4].spread_bps, threshold_bps)
    /\ Len(events) = 1
    /\ events[1].start_ms = metric_rows[2].ts_ms
    /\ events[1].end_ms = metric_rows[4].ts_ms
    /\ events[1].peak_bps = metric_rows[4].spread_bps

\* C25: with a positive threshold (the mids of the tables are positive) every
\* event has min_venue # max_venue and every trade long_venue # short_venue;
\* an event with min_venue = max_venue is one of a threshold that is not
\* positive and of a peak spread of zero, all venues sharing one mid.
C25_DistinctVenues ==
    /\ RatGt(threshold_bps, <<0, 1>>) =>
           /\ \A n \in 1..Len(events) : events[n].min_venue # events[n].max_venue
           /\ \A n \in 1..Len(trades) : trades[n].long_venue # trades[n].short_venue
    /\ \A n \in 1..Len(events) :
           events[n].min_venue = events[n].max_venue =>
               /\ ~RatGt(threshold_bps, <<0, 1>>)
               /\ events[n].peak_bps = <<0, 1>>
               /\ n <= Len(Emitted)
               /\ \A b \in Inside(Emitted[n]) :
                      metric_rows[b].min_mid = metric_rows[b].max_mid

\* threshold 0 and both venues at one mid throughout: the event names venue A
\* twice and the backtest trades A against A
C25_Witness ==
    /\ pc = "b_done"
    /\ threshold_bps = <<0, 1>>
    /\ Len(metric_rows) >= 2
    /\ \A b \in 1..Len(metric_rows) : metric_rows[b].min_mid = metric_rows[b].max_mid
    /\ Len(events) = 1
    /\ events[1].min_venue = "A"
    /\ events[1].max_venue = "A"
    /\ Len(trades) = 1
    /\ trades[1].long_venue = "A"
    /\ trades[1].short_venue = "A"
    /\ trades[1].spread_bps = <<0, 1>>

\* C26: the trades file changes only in the step that ends a backtest with at
\* least one trade, and then holds these trades; a run that ends with nothing
\* to do or with no trades leaves the file as it found it; the metrics and
\* events files change only in the step that ends a detect_events run with at
\* least one sample, and a run without a sample leaves both as it found them.
C26_NoWriteOnNothing ==
    [][/\ trades_file' # trades_file =>
              /\ pc' = "b_done"
              /\ trades' # <<>>
              /\ trades_file'.exists
              /\ trades_file'.rows = trades'
       /\ pc' \in {"b_nothing", "b_notrades"} => trades_file' = trades_file
       /\ (metrics_file' # metrics_file \/ events_file' # events_file) =>
              /\ pc' = "d_done"
              /\ metric_rows' # <<>>
       /\ pc' = "d_nometrics" =>
              /\ metrics_file' = metrics_file
              /\ events_file' = events_file]_vars

\* the only event of the events file is on a venue without ticks and is
\* dropped: the run ends with no trades and the trades file of the earlier run
\* is as it was
C26_Witness ==
    /\ pc = "b_notrades"
    /\ db # <<>>
    /\ Len(bt_events.rows) = 1
    /\ n_read = 1
    /\ trades = <<>>
    /\ trades_file = OldTrades
====
